---- MODULE Spec2Model ----
(***************************************************************************)
(* Command sequencing and streamed-audio scheduling of the LearningScreen  *)
(* component (src/src/components/LearningScreen.tsx).                      *)
(*                                                                         *)
(* The component is a React function component.  Its state lives in three  *)
(* kinds of places, which the model keeps apart:                           *)
(*   - React state (useState): a setter only records an update; the new    *)
(*     value becomes visible at the next render.  Each such state X has a  *)
(*     committed value X and the value XPending it will have once the      *)
(*     recorded updates are applied (commandQueue has the list of recorded *)
(*     updates, because it is updated both functionally and by value).     *)
(*   - refs (useRef) and the fields of StreamingAudioPlayer: plain mutable *)
(*     memory, changed at once.                                            *)
(*   - pending callbacks: timers, promise continuations, audio events.     *)
(* One action is one task of the single-threaded event loop: a handler     *)
(* runs to completion, then the promise continuations it left behind.      *)
(* Render applies the recorded updates; when a dependency of the           *)
(* queue-processing effect changed, the effect is run by a later step      *)
(* (QueueEffect), always before the next render.                           *)
(*                                                                         *)
(* Handlers are written as operators from a record of all the variables to *)
(* the record after the handler, in the order of the statements of the     *)
(* source.                                                                 *)
(***************************************************************************)
EXTENDS Integers, Sequences, FiniteSets, TLC

(***************************************************************************)
(* Bounds of the model.                                                    *)
(***************************************************************************)
MaxCmds == 3        \* commands delivered in Spec, QuestionSpec, UnknownSpec
MaxQueueCmds == 5   \* commands delivered in QueueSpec
MaxBatch == 2       \* command messages in one WebSocket message
MaxChunks == 3      \* fragments handed to one player
MaxTime == 4        \* last value of audioContext.currentTime in ScheduleSpec
MaxStopChunks == 2  \* fragments handed to the player in StopClockSpec
MaxContinueCmds == 2 \* commands delivered in ContinueSpec
MaxSent == 2        \* events sent before a two-player game is started again
MaxSockets == 3     \* WebSocket objects made, the first included
MaxDisposeCmds == 2 \* commands delivered in DisposeSpec
MaxEnvelopeCmds == 2 \* commands, and batches, delivered in EnvelopeSpec
MaxGameCmds == 2    \* commands delivered in GameTimerSpec
MaxGameSent == 4    \* events sent in GameTimerSpec
GameSeconds == 2    \* seconds a two-player game lasts (180 in the source)

Parties == {"teacher", "classmate"}

Null == 0

VARIABLES
    \* ---- sequencer: React state --------------------------------------
    commandQueue,             \* useState<CommandMessage[]>, committed value
    commandQueueUpdates,      \* recorded setCommandQueue calls, oldest first
    shouldProcessNext,        \* useState<boolean>, committed value
    shouldProcessNextPending, \* its value after the recorded updates
    isProcessing,             \* useState<boolean>, committed value
    isProcessingPending,      \* its value after the recorded updates
    effectPending,            \* the queue effect is scheduled for the last render
    \* ---- refs: read and written at once -------------------------------
    isProcessingRef,          \* useRef<boolean>: a command is in flight
    websocketRef,             \* readyState of websocketRef.current, or "null"
    sessionStartedRef,        \* start_session was sent on this connection
    pingIntervalRef,          \* the 30 s ping interval is set
    \* ---- connection ---------------------------------------------------
    sockets,                  \* the WebSocket objects made so far, oldest first
    websocketId,              \* which of them websocketRef.current is, or Null
    pingIntervalOwner,        \* the socket whose onopen set pingIntervalRef
    isInactive,               \* useState<boolean> (285), committed value
    isInactivePending,        \* its value after the recorded updates
    connectionEffectPending,  \* the connection effect is scheduled (1218)
    showInactivityModal,      \* the inactivity modal is shown (286)
    \* ---- UI state the user's completion clicks depend on -------------
    currentQuestion,          \* command whose MCQ is displayed, or Null
    currentQuestionPending,
    currentBinaryQuestion,    \* command whose binary question is displayed
    currentBinaryQuestionPending,
    \* ---- UI state the commands set (value after the recorded updates) -
    whiteboardContent,        \* WHITEBOARD commands whose html was appended
    currentGame,              \* GAME command whose code is shown, or Null
    currentTwoPlayerGame,     \* TWO_PLAYER_GAME command shown, or Null
    showFinishButton,         \* the continue button is shown
    timerActive,              \* the two-player game timer runs
    showFeedback,             \* feedback popup is shown
    feedbackCorrect,          \* the answer it reports was correct
    gameTimer,                \* useState<number>(180) (257), after recorded updates
    gameTimerDeps,            \* [timerActive, gameTimer] at the timer effect's last run
    connectionStatus,         \* connecting, connected or disconnected
    \* ---- pending callbacks -------------------------------------------
    settleTimers,             \* WHITEBOARD commands whose 100 ms timer is set
    endDelayTimers,           \* speech commands whose 1000 ms timer is set
    gameTimerRef,             \* the 1000 ms timeout of the game timer is set
    feedbackTimers,           \* 2000 ms timers set by a correct answer
    \* ---- audio ---------------------------------------------------------
    player,                   \* party -> fields of its StreamingAudioPlayer
    currentTime,              \* audioContext.currentTime
    audioPlayers,             \* teacherAudioPlayer and classmateAudioPlayer
                              \* (275-276) are non-null, committed value
    audioPlayersPending,      \* its value after the recorded updates
    handlerAudioPlayers,      \* their value in the closure of ws.onmessage
    \* ---- history (not program state) ---------------------------------
    outbound,                 \* events handed to websocket.send, in order
    sessionStarts,            \* sockets that start_session was sent on
    inbound,                  \* batches of 'command' messages received
    cmds,                     \* commands delivered so far, in arrival order
    processed,                \* commands in the order processCommand started
    enqueued,                 \* commands in the order they were appended
    completed,                \* commands whose own completion signal fired
    strayCompletes,           \* markCommandComplete calls for a completed command
    endFired                  \* party -> end callbacks invoked, in order

vars == << commandQueue, commandQueueUpdates, shouldProcessNext,
           shouldProcessNextPending, isProcessing, isProcessingPending,
           effectPending, isProcessingRef, currentQuestion,
           currentQuestionPending, currentBinaryQuestion,
           currentBinaryQuestionPending, whiteboardContent, currentGame,
           currentTwoPlayerGame, settleTimers, endDelayTimers, player,
           currentTime, cmds, processed, enqueued, completed,
           strayCompletes, endFired, showFeedback, feedbackCorrect,
           feedbackTimers, outbound, connectionStatus, websocketRef,
           sessionStartedRef, pingIntervalRef, showFinishButton,
           timerActive, audioPlayers, audioPlayersPending,
           handlerAudioPlayers, isInactive, isInactivePending,
           connectionEffectPending, showInactivityModal, sockets,
           websocketId, pingIntervalOwner, sessionStarts, inbound,
           gameTimer, gameTimerDeps, gameTimerRef >>

(***************************************************************************)
(* The state as one record, and its commit as the next state.  micro is    *)
(* the queue of promise continuations of the running task; it is empty     *)
(* between tasks.  audioPlayer is the value of teacherAudioPlayer and      *)
(* classmateAudioPlayer in the closure of the running handler: that of the *)
(* last render, unless the task says otherwise.                            *)
(***************************************************************************)
Pack ==
    [ commandQueue |-> commandQueue,
      commandQueueUpdates |-> commandQueueUpdates,
      shouldProcessNext |-> shouldProcessNext,
      shouldProcessNextPending |-> shouldProcessNextPending,
      isProcessing |-> isProcessing,
      isProcessingPending |-> isProcessingPending,
      effectPending |-> effectPending,
      isProcessingRef |-> isProcessingRef,
      currentQuestion |-> currentQuestion,
      currentQuestionPending |-> currentQuestionPending,
      currentBinaryQuestion |-> currentBinaryQuestion,
      currentBinaryQuestionPending |-> currentBinaryQuestionPending,
      whiteboardContent |-> whiteboardContent,
      currentGame |-> currentGame,
      currentTwoPlayerGame |-> currentTwoPlayerGame,
      settleTimers |-> settleTimers,
      endDelayTimers |-> endDelayTimers,
      player |-> player,
      currentTime |-> currentTime,
      cmds |-> cmds,
      processed |-> processed,
      enqueued |-> enqueued,
      completed |-> completed,
      strayCompletes |-> strayCompletes,
      endFired |-> endFired,
      showFeedback |-> showFeedback,
      feedbackCorrect |-> feedbackCorrect,
      feedbackTimers |-> feedbackTimers,
      outbound |-> outbound,
      connectionStatus |-> connectionStatus,
      websocketRef |-> websocketRef,
      sessionStartedRef |-> sessionStartedRef,
      pingIntervalRef |-> pingIntervalRef,
      showFinishButton |-> showFinishButton,
      timerActive |-> timerActive,
      audioPlayers |-> audioPlayers,
      audioPlayersPending |-> audioPlayersPending,
      handlerAudioPlayers |-> handlerAudioPlayers,
      audioPlayer |-> audioPlayers,
      isInactive |-> isInactive,
      isInactivePending |-> isInactivePending,
      connectionEffectPending |-> connectionEffectPending,
      showInactivityModal |-> showInactivityModal,
      sockets |-> sockets,
      websocketId |-> websocketId,
      pingIntervalOwner |-> pingIntervalOwner,
      sessionStarts |-> sessionStarts,
      inbound |-> inbound,
      gameTimer |-> gameTimer,
      gameTimerDeps |-> gameTimerDeps,
      gameTimerRef |-> gameTimerRef,
      micro |-> << >> ]

Commit(s) ==
    /\ commandQueue' = s.commandQueue
    /\ commandQueueUpdates' = s.commandQueueUpdates
    /\ shouldProcessNext' = s.shouldProcessNext
    /\ shouldProcessNextPending' = s.shouldProcessNextPending
    /\ isProcessing' = s.isProcessing
    /\ isProcessingPending' = s.isProcessingPending
    /\ effectPending' = s.effectPending
    /\ isProcessingRef' = s.isProcessingRef
    /\ currentQuestion' = s.currentQuestion
    /\ currentQuestionPending' = s.currentQuestionPending
    /\ currentBinaryQuestion' = s.currentBinaryQuestion
    /\ currentBinaryQuestionPending' = s.currentBinaryQuestionPending
    /\ whiteboardContent' = s.whiteboardContent
    /\ currentGame' = s.currentGame
    /\ currentTwoPlayerGame' = s.currentTwoPlayerGame
    /\ settleTimers' = s.settleTimers
    /\ endDelayTimers' = s.endDelayTimers
    /\ player' = s.player
    /\ currentTime' = s.currentTime
    /\ cmds' = s.cmds
    /\ processed' = s.processed
    /\ enqueued' = s.enqueued
    /\ completed' = s.completed
    /\ strayCompletes' = s.strayCompletes
    /\ endFired' = s.endFired
    /\ showFeedback' = s.showFeedback
    /\ feedbackCorrect' = s.feedbackCorrect
    /\ feedbackTimers' = s.feedbackTimers
    /\ outbound' = s.outbound
    /\ connectionStatus' = s.connectionStatus
    /\ websocketRef' = s.websocketRef
    /\ sessionStartedRef' = s.sessionStartedRef
    /\ pingIntervalRef' = s.pingIntervalRef
    /\ showFinishButton' = s.showFinishButton
    /\ timerActive' = s.timerActive
    /\ audioPlayers' = s.audioPlayers
    /\ audioPlayersPending' = s.audioPlayersPending
    /\ handlerAudioPlayers' = s.handlerAudioPlayers
    /\ isInactive' = s.isInactive
    /\ isInactivePending' = s.isInactivePending
    /\ connectionEffectPending' = s.connectionEffectPending
    /\ showInactivityModal' = s.showInactivityModal
    /\ sockets' = s.sockets
    /\ websocketId' = s.websocketId
    /\ pingIntervalOwner' = s.pingIntervalOwner
    /\ sessionStarts' = s.sessionStarts
    /\ inbound' = s.inbound
    /\ gameTimer' = s.gameTimer
    /\ gameTimerDeps' = s.gameTimerDeps
    /\ gameTimerRef' = s.gameTimerRef

(***************************************************************************)
(* Commands.  A command is identified by its arrival number (its index in  *)
(* cmds); the queue and the callbacks hold that number where the source    *)
(* holds the (immutable) message object.  Of a payload the model keeps     *)
(* what processCommand tests: ok (every field the kind requires is         *)
(* present), audio (audio_bytes present), sc (stream_complete === true).   *)
(***************************************************************************)
SpeechTypes == {"TEACHER_SPEECH", "CLASSMATE_SPEECH"}

Shape(t, ok, audio, sc) == [type |-> t, ok |-> ok, audio |-> audio, sc |-> sc]

SpeechShapes ==
    { Shape(t, TRUE, a, c) : t \in SpeechTypes, a \in BOOLEAN, c \in BOOLEAN }

FieldShapes ==
    { Shape(t, ok, FALSE, FALSE) :
        t \in {"WHITEBOARD", "MCQ_QUESTION", "BINARY_CHOICE_QUESTION", "GAME",
               "TWO_PLAYER_GAME", "STUDENT_POINT", "CLASSMATE_POINT"},
        ok \in BOOLEAN }

PlainShapes ==
    { Shape(t, TRUE, FALSE, FALSE) : t \in {"FINISH_MODULE", "UNKNOWN"} }

AllShapes == SpeechShapes \cup FieldShapes \cup PlainShapes

\* One command of each way of completing: on a timer, at once (a known
\* kind, a question, an unknown kind), at once after handing a fragment to
\* the player, and on the player's end callback.
SequencerShapes ==
    { Shape("WHITEBOARD", TRUE, FALSE, FALSE),
      Shape("FINISH_MODULE", TRUE, FALSE, FALSE),
      Shape("MCQ_QUESTION", TRUE, FALSE, FALSE),
      Shape("UNKNOWN", TRUE, FALSE, FALSE),
      Shape("TEACHER_SPEECH", TRUE, TRUE, FALSE),
      Shape("TEACHER_SPEECH", TRUE, TRUE, TRUE) }

SenderOf(t) == IF t = "TEACHER_SPEECH" THEN "teacher" ELSE "classmate"

(***************************************************************************)
(* StreamingAudioPlayer.  Beside the fields of the class a player has its  *)
(* pending callbacks: decoding (the chunks whose decodeAudioData promise   *)
(* is outstanding, one per suspended processNextChunk), contTimers (the    *)
(* number of 1 ms setTimeout(processNextChunk) timers set) and stopped     *)
(* (source nodes stopped by stop() whose ended event is not yet            *)
(* dispatched).  scheduled is the history of sourceNode.start calls (each   *)
(* with the clock value at which it was made), ended the chunks that       *)
(* played to their end, failed those decodeAudioData rejected, discarded   *)
(* the chunks that were pending or in decode when stop() was called.       *)
(***************************************************************************)
NewPlayer ==
    [ audioContext |-> "running",
      nextStartTime |-> 0,
      isPlaying |-> FALSE,
      pendingChunks |-> << >>,
      isProcessing |-> FALSE,
      onEndCallback |-> Null,
      activeSourceNodes |-> << >>,
      decoding |-> {},
      contTimers |-> 0,
      stopped |-> {},
      scheduled |-> << >>,
      ended |-> {},
      failed |-> {},
      discarded |-> {} ]

Max(a, b) == IF a >= b THEN a ELSE b

Range(seq) == { seq[i] : i \in 1..Len(seq) }

RemoveAt(seq, i) == SubSeq(seq, 1, i - 1) \o SubSeq(seq, i + 1, Len(seq))

IndexOfNode(nodes, chunk) ==
    IF \E i \in 1..Len(nodes) : nodes[i].chunk = chunk
    THEN CHOOSE i \in 1..Len(nodes) : nodes[i].chunk = chunk
    ELSE 0

\* The callback playStreamingAudio registers for command c of sender p
\* (LearningScreen.tsx 705-719): UI resets, then a 1000 ms timer that
\* calls markCommandComplete.
EndCallback(s, p, c) ==
    [s EXCEPT !.endDelayTimers = @ \cup {c}]

\* if (this.onEndCallback) { this.onEndCallback(); this.onEndCallback = null; }
\* The history endFired records each invocation with what the player
\* held at that moment and the method that made it.
FireOnEndCallback(s, p, by) ==
    LET P == s.player[p] IN
    IF P.onEndCallback # Null
    THEN [EndCallback(s, p, P.onEndCallback) EXCEPT
            !.player[p].onEndCallback = Null,
            !.endFired[p] =
                Append(@, [callback |-> P.onEndCallback,
                           active |-> Len(P.activeSourceNodes),
                           pending |-> Len(P.pendingChunks),
                           decoding |-> P.decoding,
                           by |-> by])]
    ELSE s

\* processNextChunk up to its first await.
processNextChunk(s, p) ==
    LET P == s.player[p] IN
    IF Len(P.pendingChunks) = 0 \/ P.audioContext = "null"
    THEN [s EXCEPT !.player[p].isProcessing = FALSE]
    ELSE [s EXCEPT !.player[p].isProcessing = TRUE,
                   !.player[p].pendingChunks = Tail(@),
                   !.player[p].decoding = @ \cup {Head(P.pendingChunks)}]

\* addChunk: the base64 text is valid here, so the chunk is pushed.
addChunk(s, p, chunk) ==
    LET s1 == [s EXCEPT !.player[p].pendingChunks = Append(@, chunk)] IN
    IF ~s1.player[p].isProcessing THEN processNextChunk(s1, p) ELSE s1

\* processNextChunk after decodeAudioData resolved with a buffer of
\* duration d (lines 76-119).  A disposed player has no audioContext:
\* createBufferSource then throws and the catch block runs.
decodeCatch(s, p, chunk) ==
    LET s1 == [s EXCEPT !.player[p].decoding = @ \ {chunk},
                        !.player[p].failed = @ \cup {chunk},
                        !.player[p].isProcessing = FALSE] IN
    IF Len(s1.player[p].pendingChunks) > 0
    THEN [s1 EXCEPT !.player[p].contTimers = @ + 1]
    ELSE s1

\* A scheduling step that starts each node at the current time.
decodeResolvedAtOnce(s, p, chunk, d) ==
    LET P == s.player[p]
        startTime == s.currentTime
        node == [chunk |-> chunk, start |-> startTime, duration |-> d,
                 at |-> s.currentTime]
        s1 == [s EXCEPT !.player[p].decoding = @ \ {chunk},
                        !.player[p].activeSourceNodes = Append(@, node),
                        !.player[p].scheduled = Append(@, node),
                        !.player[p].nextStartTime = startTime + d,
                        !.player[p].isPlaying = TRUE]
    IN  IF P.audioContext = "null" THEN decodeCatch(s, p, chunk)
        ELSE IF Len(P.pendingChunks) > 0
        THEN [s1 EXCEPT !.player[p].contTimers = @ + 1]
        ELSE [s1 EXCEPT !.player[p].isProcessing = FALSE]

\* A scheduling step that moves nextStartTime to the current time plus
\* the duration, wherever it was.
decodeResolvedFromClock(s, p, chunk, d) ==
    LET P == s.player[p]
        startTime == Max(s.currentTime, P.nextStartTime)
        node == [chunk |-> chunk, start |-> startTime, duration |-> d,
                 at |-> s.currentTime]
        s1 == [s EXCEPT !.player[p].decoding = @ \ {chunk},
                        !.player[p].activeSourceNodes = Append(@, node),
                        !.player[p].scheduled = Append(@, node),
                        !.player[p].nextStartTime = s.currentTime + d,
                        !.player[p].isPlaying = TRUE]
    IN  IF P.audioContext = "null" THEN decodeCatch(s, p, chunk)
        ELSE IF Len(P.pendingChunks) > 0
        THEN [s1 EXCEPT !.player[p].contTimers = @ + 1]
        ELSE [s1 EXCEPT !.player[p].isProcessing = FALSE]

decodeResolved(s, p, chunk, d) ==
    LET P == s.player[p]
        startTime == Max(s.currentTime, P.nextStartTime)
        node == [chunk |-> chunk, start |-> startTime, duration |-> d,
                 at |-> s.currentTime]
        s1 == [s EXCEPT !.player[p].decoding = @ \ {chunk},
                        !.player[p].activeSourceNodes = Append(@, node),
                        !.player[p].scheduled = Append(@, node),
                        !.player[p].nextStartTime = startTime + d,
                        !.player[p].isPlaying = TRUE]
    IN  IF P.audioContext = "null" THEN decodeCatch(s, p, chunk)
        ELSE IF Len(P.pendingChunks) > 0
        THEN [s1 EXCEPT !.player[p].contTimers = @ + 1]
        ELSE [s1 EXCEPT !.player[p].isProcessing = FALSE]

\* sourceNode.onended of the node that played chunk (lines 96-111); the
\* node may have been dropped from activeSourceNodes by stop() meanwhile.
onended(s, p, chunk) ==
    LET P == s.player[p]
        index == IndexOfNode(P.activeSourceNodes, chunk)
        s1 == IF index > 0
              THEN [s EXCEPT !.player[p].activeSourceNodes = RemoveAt(@, index)]
              ELSE s
        s2 == [s1 EXCEPT !.player[p].stopped = @ \ {chunk},
                         !.player[p].ended =
                             IF index > 0 THEN @ \cup {chunk} ELSE @]
    IN  IF Len(s2.player[p].activeSourceNodes) = 0
           /\ Len(s2.player[p].pendingChunks) = 0
        THEN FireOnEndCallback([s2 EXCEPT !.player[p].isPlaying = FALSE],
                               p, "onended")
        ELSE s2

setOnEndCallback(s, p, callback) ==
    [s EXCEPT !.player[p].onEndCallback = callback]

\* stop() up to the test of onEndCallback (137-150).
stopNodes(s, p) ==
    LET P == s.player[p] IN
    [s EXCEPT
       !.player[p].stopped =
           @ \cup { P.activeSourceNodes[i].chunk :
                      i \in 1..Len(P.activeSourceNodes) },
       !.player[p].discarded = @ \cup Range(P.pendingChunks) \cup P.decoding,
       !.player[p].activeSourceNodes = << >>,
       !.player[p].pendingChunks = << >>,
       !.player[p].isPlaying = FALSE,
       !.player[p].isProcessing = FALSE,
       !.player[p].nextStartTime = 0]

\* A stop() that leaves a registered callback where it is.
stopKeepingCallback(s, p) == stopNodes(s, p)

stop(s, p) == FireOnEndCallback(stopNodes(s, p), p, "stop")

\* `teacherAudioPlayer?.stop(); classmateAudioPlayer?.stop();` (331-332,
\* 1011-1012) in a handler whose closure holds s.audioPlayer.
stopPlayers(s) ==
    IF s.audioPlayer THEN stop(stop(s, "teacher"), "classmate") ELSE s

(***************************************************************************)
(* The sequencer.                                                          *)
(***************************************************************************)
markCommandComplete(s) ==
    [s EXCEPT !.isProcessingRef = FALSE,
              !.isProcessingPending = FALSE,
              !.shouldProcessNextPending = TRUE]

\* The completion signal of command c calls markCommandComplete.  The
\* history records whether c had been completed before.
SignalComplete(s, c) ==
    markCommandComplete(
        IF c \in s.completed
        THEN [s EXCEPT !.strayCompletes = @ + 1]
        ELSE [s EXCEPT !.completed = @ \cup {c}])

\* playStreamingAudio after `await audioPlayer.addChunk(...)` (698-720).
playStreamingAudioRest(s, sender, c) ==
    IF ~s.cmds[c].sc
    THEN SignalComplete(s, c)
    ELSE setOnEndCallback(s, sender, c)

\* playStreamingAudio from the try block on (687-696).  With audio_bytes
\* the rest runs as a promise continuation, after the running task's
\* synchronous code; without, it runs at once.
playStreamingAudioWithPlayer(s, sender, c) ==
    IF s.cmds[c].audio
    THEN [addChunk(s, sender, c) EXCEPT
            !.micro = Append(@, [sender |-> sender, cmd |-> c])]
    ELSE playStreamingAudioRest(s, sender, c)

\* A playStreamingAudio that uses the player whatever the closure holds.
playStreamingAudioUnguarded(s, sender, c) ==
    playStreamingAudioWithPlayer(s, sender, c)

\* playStreamingAudio (677-731): `if (!audioPlayer)` completes the command
\* and returns (681-685).
playStreamingAudio(s, sender, c) ==
    IF ~s.audioPlayer
    THEN SignalComplete(s, c)
    ELSE playStreamingAudioWithPlayer(s, sender, c)

\* A speech case that looks at audio_bytes only.
processSpeechAudioOnly(s, c) ==
    IF s.cmds[c].audio
    THEN playStreamingAudio(s, SenderOf(s.cmds[c].type), c)
    ELSE SignalComplete(s, c)

\* case 'TEACHER_SPEECH' / 'CLASSMATE_SPEECH' (525-557).
processSpeech(s, c) ==
    IF s.cmds[c].audio \/ s.cmds[c].sc
    THEN playStreamingAudio(s, SenderOf(s.cmds[c].type), c)
    ELSE SignalComplete(s, c)

\* A WHITEBOARD case that completes as soon as the html is appended.
processWhiteboardAtOnce(s, c) ==
    IF s.cmds[c].ok
    THEN SignalComplete([s EXCEPT !.whiteboardContent = Append(@, c)], c)
    ELSE SignalComplete(s, c)

\* case 'WHITEBOARD' (559-569).
processWhiteboard(s, c) ==
    IF s.cmds[c].ok
    THEN [s EXCEPT !.whiteboardContent = Append(@, c),
                   !.settleTimers = @ \cup {c}]
    ELSE SignalComplete(s, c)

\* The question cases as the earlier version of the component has them:
\* completion is left to the user's answer or cancel.
processQuestionDeferred(s, c) ==
    IF s.cmds[c].ok
    THEN IF s.cmds[c].type = "MCQ_QUESTION"
         THEN [s EXCEPT !.currentQuestionPending = c]
         ELSE [s EXCEPT !.currentBinaryQuestionPending = c]
    ELSE SignalComplete(s, c)

\* case 'MCQ_QUESTION' / 'BINARY_CHOICE_QUESTION' (571-601).
processQuestion(s, c) ==
    IF s.cmds[c].ok
    THEN SignalComplete(
             IF s.cmds[c].type = "MCQ_QUESTION"
             THEN [s EXCEPT !.currentQuestionPending = c]
             ELSE [s EXCEPT !.currentBinaryQuestionPending = c],
             c)
    ELSE SignalComplete(s, c)

\* A GAME case that shows whatever code it was given.
processGameUnchecked(s, c) ==
    SignalComplete([s EXCEPT !.currentGame = c], c)

\* case 'GAME' (610-631): ok is "payload.code is present and atob decodes
\* it"; a missing code and a throwing atob both end in markCommandComplete
\* with nothing set.
processGame(s, c) ==
    IF s.cmds[c].ok
    THEN SignalComplete([s EXCEPT !.currentGame = c], c)
    ELSE SignalComplete(s, c)

\* case 'TWO_PLAYER_GAME' (633-652).
processTwoPlayerGame(s, c) ==
    IF s.cmds[c].ok
    THEN SignalComplete([s EXCEPT !.currentTwoPlayerGame = c,
                                  !.gameTimer = GameSeconds,
                                  !.timerActive = FALSE], c)
    ELSE SignalComplete(s, c)

\* A FINISH_MODULE case that leaves the completion to the button's click.
processFinishModuleOnClick(s, c) == [s EXCEPT !.showFinishButton = TRUE]

\* case 'FINISH_MODULE' (603-608).
processFinishModule(s, c) ==
    SignalComplete([s EXCEPT !.showFinishButton = TRUE], c)

\* A default case that only logs.
processOtherLogOnly(s, c) ==
    IF s.cmds[c].type = "UNKNOWN" THEN s ELSE SignalComplete(s, c)

\* STUDENT_POINT, CLASSMATE_POINT and the default case (654-674): every
\* path ends in markCommandComplete.
processOther(s, c) == SignalComplete(s, c)

processCommand(s, c) ==
    LET m == s.cmds[c]
        s1 == [s EXCEPT !.processed = Append(@, c)]
    IN  CASE m.type \in SpeechTypes -> processSpeech(s1, c)
          [] m.type = "WHITEBOARD" -> processWhiteboard(s1, c)
          [] m.type \in {"MCQ_QUESTION", "BINARY_CHOICE_QUESTION"} ->
               processQuestion(s1, c)
          [] m.type = "FINISH_MODULE" -> processFinishModule(s1, c)
          [] m.type = "GAME" -> processGame(s1, c)
          [] m.type = "TWO_PLAYER_GAME" -> processTwoPlayerGame(s1, c)
          [] OTHER -> processOther(s1, c)

handleCommandMessage(s, c) ==
    IF s.isProcessingRef
    THEN [s EXCEPT !.commandQueueUpdates =
                       Append(@, [op |-> "append", cmd |-> c, queue |-> << >>]),
                   !.enqueued = Append(@, c)]
    ELSE processCommand([s EXCEPT !.isProcessingRef = TRUE,
                                  !.isProcessingPending = TRUE], c)

\* A 'command' message without command, without command.command_type or
\* without command.payload.
InvalidEnvelopes ==
    { Shape(k, FALSE, FALSE, FALSE) :
        k \in {"no command", "no command_type", "no payload"} }

ValidEnvelope(m) == m \notin InvalidEnvelopes

\* A forEach that hands every 'command' message to handleCommandMessage.
RECURSIVE handleWebSocketMessageUnchecked(_, _)
handleWebSocketMessageUnchecked(s, messages) ==
    IF messages = << >> THEN s
    ELSE LET s1 == [s EXCEPT !.cmds = Append(@, Head(messages))]
         IN  handleWebSocketMessageUnchecked(
                 handleCommandMessage(s1, Len(s1.cmds)), Tail(messages))

\* messages.forEach over a batch of 'command' messages (1076-1132): one
\* with command, command_type and payload goes to handleCommandMessage,
\* any other is logged (1118-1125).
RECURSIVE handleWebSocketMessage(_, _)
handleWebSocketMessage(s, messages) ==
    IF messages = << >> THEN s
    ELSE IF ~ValidEnvelope(Head(messages))
    THEN handleWebSocketMessage(s, Tail(messages))
    ELSE LET s1 == [s EXCEPT !.cmds = Append(@, Head(messages))]
         IN  handleWebSocketMessage(handleCommandMessage(s1, Len(s1.cmds)),
                                    Tail(messages))

\* The promise continuations left by the task, first in first out.
RECURSIVE RunMicrotasks(_)
RunMicrotasks(s) ==
    IF s.micro = << >> THEN s
    ELSE LET k == Head(s.micro)
         IN  RunMicrotasks(
                 playStreamingAudioRest([s EXCEPT !.micro = Tail(@)],
                                        k.sender, k.cmd))

\* The body of the queue-processing effect (476-500), run with the values
\* of the render it belongs to.
queueEffect(s) ==
    IF s.shouldProcessNext /\ Len(s.commandQueue) > 0 /\ ~s.isProcessing
    THEN processCommand(
             [s EXCEPT !.commandQueueUpdates =
                           Append(@, [op |-> "set", cmd |-> Null,
                                      queue |-> Tail(s.commandQueue)]),
                       !.shouldProcessNextPending = FALSE,
                       !.isProcessingRef = TRUE,
                       !.isProcessingPending = TRUE],
             Head(s.commandQueue))
    ELSE IF Len(s.commandQueue) = 0 /\ s.shouldProcessNext
    THEN [s EXCEPT !.shouldProcessNextPending = FALSE,
                   !.isProcessingRef = FALSE,
                   !.isProcessingPending = FALSE]
    ELSE s

\* React applies the recorded updates of commandQueue in order.
RECURSIVE ApplyUpdates(_, _)
ApplyUpdates(queue, updates) ==
    IF updates = << >> THEN queue
    ELSE LET u == Head(updates)
         IN  ApplyUpdates(IF u.op = "append" THEN Append(queue, u.cmd)
                          ELSE u.queue,
                          Tail(updates))

\* cancelQuestion / cancelBinaryQuestion (853-859, 904-910): the click
\* belongs to the question on display.
cancelQuestion(s) ==
    SignalComplete([s EXCEPT !.currentQuestionPending = Null,
                             !.showFeedback = FALSE,
                             !.feedbackCorrect = FALSE],
                   s.currentQuestion)

cancelBinaryQuestion(s) ==
    SignalComplete([s EXCEPT !.currentBinaryQuestionPending = Null,
                             !.showFeedback = FALSE,
                             !.feedbackCorrect = FALSE],
                   s.currentBinaryQuestion)

\* if (websocketRef.current) { websocketRef.current.send(...) }: of a
\* message the model keeps its type, the interaction it reports and the
\* correct flag.  outbound records the calls of send, whatever the
\* readyState of the socket.
Send(s, message) ==
    IF s.websocketRef # "null"
    THEN [s EXCEPT !.outbound = Append(@, message)]
    ELSE s

Interaction(kind, isCorrect) ==
    [type |-> "student_interaction", interaction |-> kind,
     correct |-> isCorrect]

\* An outbound message that reports no interaction.
Event(type) == [type |-> type, interaction |-> "none", correct |-> FALSE]

\* The answer handler with the completion moved out of the timer.
answerAtOnce(s, kind, c, isCorrect) ==
    LET s1 == Send(s, Interaction(kind, isCorrect))
        s2 == [s1 EXCEPT !.showFeedback = TRUE,
                         !.feedbackCorrect = isCorrect]
    IN  IF isCorrect
        THEN SignalComplete(
                 [s2 EXCEPT !.feedbackTimers =
                     Append(@, [kind |-> kind, cmd |-> c])], c)
        ELSE s2

\* An answer handler that sets the 2000 ms timer for a wrong answer too.
answerAlwaysTimed(s, kind, c, isCorrect) ==
    LET s1 == Send(s, Interaction(kind, isCorrect))
    IN  [s1 EXCEPT !.showFeedback = TRUE,
                   !.feedbackCorrect = isCorrect,
                   !.feedbackTimers = Append(@, [kind |-> kind, cmd |-> c])]

\* The common body of submitAnswer (816-850) and submitBinaryAnswer
\* (867-901) for the question of command c on display and an option
\* selected: the event is sent, the feedback is shown, and a correct
\* answer sets the 2000 ms timer.
answer(s, kind, c, isCorrect) ==
    LET s1 == Send(s, Interaction(kind, isCorrect))
        s2 == [s1 EXCEPT !.showFeedback = TRUE,
                         !.feedbackCorrect = isCorrect]
    IN  IF isCorrect
        THEN [s2 EXCEPT !.feedbackTimers =
                 Append(@, [kind |-> kind, cmd |-> c])]
        ELSE s2

submitAnswer(s, isCorrect) ==
    answer(s, "mcq_question", s.currentQuestion, isCorrect)

submitBinaryAnswer(s, isCorrect) ==
    answer(s, "binary_choice_question", s.currentBinaryQuestion, isCorrect)

\* The callback of the 2000 ms timer (841-847, 892-898).
feedbackTimeout(s, timer) ==
    LET s1 == IF timer.kind = "mcq_question"
              THEN [s EXCEPT !.currentQuestionPending = Null]
              ELSE [s EXCEPT !.currentBinaryQuestionPending = Null]
    IN  SignalComplete([s1 EXCEPT !.showFeedback = FALSE,
                                  !.feedbackCorrect = FALSE],
                       timer.cmd)

\* The state setters of handleContinueLesson (1018-1037); showGame and
\* showTwoPlayerGame are set and reset together with the game they show.
resetVisible(s) ==
    [s EXCEPT !.whiteboardContent = << >>,
              !.currentQuestionPending = Null,
              !.currentBinaryQuestionPending = Null,
              !.showFinishButton = FALSE,
              !.showFeedback = FALSE,
              !.feedbackCorrect = FALSE,
              !.currentGame = Null,
              !.currentTwoPlayerGame = Null,
              !.timerActive =
                  IF s.currentTwoPlayerGame # Null THEN FALSE ELSE @,
              !.gameTimer =
                  IF s.currentTwoPlayerGame # Null THEN GameSeconds ELSE @,
              !.gameTimerRef =
                  IF s.currentTwoPlayerGame # Null THEN FALSE ELSE @]

\* A continue-lesson handler that also completes the command in flight.
handleContinueLessonCompleting(s) ==
    markCommandComplete(
        Send(resetVisible(stopPlayers(s)),
             Event("next_phase")))

\* handleContinueLesson (1009-1051); finishGame (913-915) is a call of it.
handleContinueLesson(s) ==
    Send(resetVisible(stopPlayers(s)),
         Event("next_phase"))

\* The two-player game timer effect (934-959) for the rendered
\* timerActive and gameTimer: the cleanup of its last run clears the
\* timeout; then a 1000 ms timeout is set, or the countdown has ended.
gameTimerEffect(s) ==
    LET s1 == [s EXCEPT !.gameTimerRef = FALSE,
                        !.gameTimerDeps = << s.timerActive, s.gameTimer >>]
    IN  IF s.timerActive /\ s.gameTimer > 0
        THEN [s1 EXCEPT !.gameTimerRef = TRUE]
        ELSE IF s.gameTimer = 0 /\ s.timerActive
        THEN [Send(s1, Event("finish_two_player_game")) EXCEPT
                !.timerActive = FALSE]
        ELSE s1

\* The render and the effects of a click are flushed before the click
\* returns: the timer effect runs if its dependencies changed, and again
\* if it changed them itself.
flushGameTimerEffect(s) ==
    LET run(x) == IF << x.timerActive, x.gameTimer >> # x.gameTimerDeps
                  THEN gameTimerEffect(x)
                  ELSE x
    IN  run(run(s))

\* The callback of the timeout: setGameTimer(prev => prev - 1) (936-938).
gameTimeout(s) ==
    [s EXCEPT !.gameTimerRef = FALSE, !.gameTimer = @ - 1]

\* startTwoPlayerGameTimer (962-978), a side being chosen.
startTwoPlayerGameTimer(s) ==
    Send([s EXCEPT !.timerActive = TRUE], Event("start_two_player_game"))

\* finishTwoPlayerGame (981-993).
finishTwoPlayerGame(s) ==
    [Send(s, Event("finish_two_player_game")) EXCEPT !.timerActive = FALSE]

\* An onclose handler that also empties the queue and clears the flag.
oncloseFlushing(s) ==
    [s EXCEPT !.connectionStatus = "disconnected",
              !.sessionStartedRef = FALSE,
              !.pingIntervalRef = FALSE,
              !.commandQueueUpdates =
                  Append(@, [op |-> "set", cmd |-> Null, queue |-> << >>]),
              !.isProcessingRef = FALSE,
              !.isProcessingPending = FALSE]

\* if (pingIntervalRef.current) { clearInterval(pingIntervalRef.current);
\* pingIntervalRef.current = null; }: the interval the ref holds stops,
\* one that an earlier onopen set and a later onopen overwrote runs on.
clearPingInterval(s) ==
    IF s.pingIntervalRef
    THEN [s EXCEPT !.pingIntervalRef = FALSE,
                   !.sockets[s.pingIntervalOwner].interval = FALSE]
    ELSE s

\* ws.onclose (416-426).
onclose(s) ==
    clearPingInterval([s EXCEPT !.connectionStatus = "disconnected",
                                !.sessionStartedRef = FALSE])

\* ws.onerror (428-438).
onerror(s) ==
    clearPingInterval([s EXCEPT !.connectionStatus = "disconnected",
                                !.sessionStartedRef = FALSE])

\* websocketRef.current.close(): an open or connecting socket starts its
\* closing handshake; its handlers stay attached.
closeSocket(s) ==
    IF s.websocketId # Null
       /\ s.sockets[s.websocketId].readyState \in {"CONNECTING", "OPEN"}
    THEN [s EXCEPT !.sockets[s.websocketId].readyState = "CLOSING"]
    ELSE s

\* handleInactivity (324-354): both players are stopped, the ping interval
\* is cleared, the socket is closed and dropped.
handleInactivity(s) ==
    LET s1 == [s EXCEPT !.sessionStartedRef = FALSE,
                        !.isInactivePending = TRUE,
                        !.showInactivityModal = TRUE]
        s2 == closeSocket(clearPingInterval(stopPlayers(s1)))
    IN  [s2 EXCEPT !.websocketRef = "null",
                   !.websocketId = Null,
                   !.connectionStatus = "disconnected"]

\* establishWebSocketConnection (383-454): skipped only when the socket
\* in websocketRef is OPEN.  The new socket's handlers, and the callback
\* of its ping interval, are closures of the caller's render.
establishWebSocketConnection(s) ==
    IF s.websocketRef = "OPEN"
    THEN s
    ELSE [s EXCEPT
            !.connectionStatus = "connecting",
            !.sockets = Append(@, [readyState |-> "CONNECTING",
                                   interval |-> FALSE,
                                   periodic |-> ~s.isInactive,
                                   pinged |-> FALSE]),
            !.websocketRef = "CONNECTING",
            !.websocketId = Len(s.sockets) + 1,
            !.handlerAudioPlayers = s.audioPlayer]

\* handleUserActive (356-369), sessionData loaded.
handleUserActive(s) ==
    establishWebSocketConnection(
        [s EXCEPT !.showInactivityModal = FALSE,
                  !.isInactivePending = FALSE,
                  !.sessionStartedRef = FALSE])

\* ws.onopen of socket k (398-414): a ping is sent on it and the ping
\* interval is set, whatever pingIntervalRef held.
onopen(s, k) ==
    [s EXCEPT !.sockets[k].pinged = TRUE,
              !.sockets[k].interval = TRUE,
              !.pingIntervalRef = TRUE,
              !.pingIntervalOwner = k]

\* handleWebSocketMessage, case 'pong' (1081-1099), sessionData loaded:
\* start_session goes to the socket in websocketRef, and send() on a
\* socket that is still connecting throws, which ws.onmessage catches
\* (451-453) before sessionStartedRef is set.
handlePong(s) ==
    LET s1 == [s EXCEPT !.connectionStatus = "connected"]
    IN  IF ~s.sessionStartedRef /\ s.websocketRef \notin {"null", "CONNECTING"}
        THEN [Send(s1, Event("start_session")) EXCEPT
                !.sessionStartedRef = TRUE,
                !.sessionStarts = Append(@, s.websocketId)]
        ELSE s1

\* dispose() (166-172): stop(), then the audio context is closed and
\* dropped.
dispose(s, p) == [stop(s, p) EXCEPT !.player[p].audioContext = "null"]

\* The cleanup the connection effect returned (1226-1254): the ping
\* interval is cleared, the players of the effect's closure are disposed,
\* the socket in websocketRef is closed.
connectionCleanup(s) ==
    LET s1 == [clearPingInterval(s) EXCEPT !.gameTimerRef = FALSE]
        s2 == IF s1.handlerAudioPlayers
              THEN dispose(dispose(s1, "teacher"), "classmate")
              ELSE s1
    IN  IF s2.websocketRef # "null"
        THEN [closeSocket(s2) EXCEPT !.websocketRef = "CLOSED"]
        ELSE s2

\* The connection effect (1218-1255) after a render that changed
\* isInactive, sessionData loaded: the cleanup of its last run, if that
\* run returned one, then `if (sessionData && !isInactive)`.
connectionEffect(s) ==
    IF s.isInactive
    THEN connectionCleanup(s)
    ELSE establishWebSocketConnection(s)

(***************************************************************************)
(* Initial state: the component is mounted, the connection is open, the    *)
(* session is started (the first pong was answered with start_session)     *)
(* and nothing has been delivered.  a: both players are initialized.       *)
(***************************************************************************)
Start(a) ==
    /\ commandQueue = << >>
    /\ commandQueueUpdates = << >>
    /\ shouldProcessNext = FALSE
    /\ shouldProcessNextPending = FALSE
    /\ isProcessing = FALSE
    /\ isProcessingPending = FALSE
    /\ effectPending = FALSE
    /\ isProcessingRef = FALSE
    /\ currentQuestion = Null
    /\ currentQuestionPending = Null
    /\ currentBinaryQuestion = Null
    /\ currentBinaryQuestionPending = Null
    /\ whiteboardContent = << >>
    /\ currentGame = Null
    /\ currentTwoPlayerGame = Null
    /\ settleTimers = {}
    /\ endDelayTimers = {}
    /\ player = [p \in Parties |-> NewPlayer]
    /\ currentTime = 0
    /\ cmds = << >>
    /\ processed = << >>
    /\ enqueued = << >>
    /\ completed = {}
    /\ strayCompletes = 0
    /\ endFired = [p \in Parties |-> << >>]
    /\ showFeedback = FALSE
    /\ feedbackCorrect = FALSE
    /\ feedbackTimers = << >>
    /\ outbound = << >>
    /\ connectionStatus = "connected"
    /\ websocketRef = "OPEN"
    /\ sessionStartedRef = TRUE
    /\ pingIntervalRef = TRUE
    /\ showFinishButton = FALSE
    /\ timerActive = FALSE
    /\ isInactive = FALSE
    /\ isInactivePending = FALSE
    /\ connectionEffectPending = FALSE
    /\ showInactivityModal = FALSE
    /\ sockets = << [readyState |-> "OPEN", interval |-> TRUE, periodic |-> TRUE, pinged |-> FALSE] >>
    /\ websocketId = 1
    /\ pingIntervalOwner = 1
    /\ sessionStarts = << 1 >>
    /\ inbound = << >>
    /\ gameTimer = GameSeconds
    /\ gameTimerDeps = << FALSE, GameSeconds >>
    /\ gameTimerRef = FALSE
    /\ audioPlayers = a
    /\ audioPlayersPending = a
    /\ handlerAudioPlayers = a

\* The screen with the connection open, the session started and both
\* players initialized (1152-1166) before the connection effect ran.
Init == Start(TRUE)

\* The same with the players still null: initialize() has not finished
\* (AudioContext.resume() pending, 35-37) or has thrown (1163-1165).
AwaitingAudio == Start(FALSE)

Batches(shapes) ==
    UNION { [1..n -> shapes] : n \in 1..MaxBatch }

(***************************************************************************)
(* Tasks of the event loop.                                                *)
(***************************************************************************)
\* ws.onmessage with a batch of command messages (440-454, 1076-1132).
Deliver(shapes, max) ==
    \E batch \in Batches(shapes) :
        /\ websocketRef = "OPEN"
        /\ Len(cmds) + Len(batch) <= max
        /\ Len(inbound) < max
        /\ Commit(RunMicrotasks(handleWebSocketMessage(
                      [Pack EXCEPT !.audioPlayer = handlerAudioPlayers,
                                   !.inbound = Append(@, batch)],
                      batch)))

\* A state update is recorded that no render has applied yet.
RenderDue ==
    \/ commandQueueUpdates # << >>
    \/ shouldProcessNextPending # shouldProcessNext
    \/ isProcessingPending # isProcessing
    \/ currentQuestionPending # currentQuestion
    \/ currentBinaryQuestionPending # currentBinaryQuestion
    \/ audioPlayersPending # audioPlayers
    \/ isInactivePending # isInactive

\* A render: the recorded updates become the committed values.  The queue
\* effect is scheduled when one of its dependencies [commandQueue,
\* shouldProcessNext, isProcessing] changed; every recorded setCommandQueue
\* produces a new array.
Render ==
    /\ ~effectPending
    /\ ~connectionEffectPending
    /\ RenderDue
    /\ Commit([Pack EXCEPT
         !.commandQueue = ApplyUpdates(commandQueue, commandQueueUpdates),
         !.commandQueueUpdates = << >>,
         !.shouldProcessNext = shouldProcessNextPending,
         !.isProcessing = isProcessingPending,
         !.currentQuestion = currentQuestionPending,
         !.currentBinaryQuestion = currentBinaryQuestionPending,
         !.audioPlayers = audioPlayersPending,
         !.isInactive = isInactivePending,
         !.connectionEffectPending = isInactivePending # isInactive,
         !.effectPending = \/ commandQueueUpdates # << >>
                           \/ shouldProcessNextPending # shouldProcessNext
                           \/ isProcessingPending # isProcessing])

QueueEffect ==
    /\ effectPending
    /\ Commit(RunMicrotasks(queueEffect([Pack EXCEPT !.effectPending = FALSE])))

\* The 100 ms timer of a WHITEBOARD command (563-565).
SettleTimer ==
    \E c \in settleTimers :
        Commit(SignalComplete([Pack EXCEPT !.settleTimers = @ \ {c}], c))

\* The 1000 ms timer set by the end callback of a speech command (716-718).
EndDelayTimer ==
    \E c \in endDelayTimers :
        Commit(SignalComplete([Pack EXCEPT !.endDelayTimers = @ \ {c}], c))

\* decodeAudioData resolves or rejects.
DecodeOk(durations) ==
    \E p \in Parties : \E chunk \in player[p].decoding : \E d \in durations :
        Commit(decodeResolved(Pack, p, chunk, d))

DecodeFail ==
    \E p \in Parties : \E chunk \in player[p].decoding :
        Commit(decodeCatch(Pack, p, chunk))

\* setTimeout(() => this.processNextChunk(), 1) fires.
ContinuationTimer ==
    \E p \in Parties :
        /\ player[p].contTimers > 0
        /\ Commit(processNextChunk(
               [Pack EXCEPT !.player[p].contTimers = @ - 1], p))

\* A source node finishes playing.  Nodes of one player are scheduled back
\* to back, so they finish in the order they were scheduled.
NodeEnded ==
    \E p \in Parties :
        /\ Len(player[p].activeSourceNodes) > 0
        /\ Commit(onended(Pack, p, player[p].activeSourceNodes[1].chunk))

\* The ended event of a node that stop() stopped.
StoppedNodeEnded ==
    \E p \in Parties : \E chunk \in player[p].stopped :
        Commit(onended(Pack, p, chunk))

\* The user closes the question on display (2518, 2594).  A click is
\* rendered before the next input event, so the button is clicked while
\* the question it shows is also the latest recorded one.
CancelQuestion ==
    /\ currentQuestion # Null
    /\ currentQuestionPending = currentQuestion
    /\ ~showFeedback
    /\ Commit(cancelQuestion(Pack))

CancelBinaryQuestion ==
    /\ currentBinaryQuestion # Null
    /\ currentBinaryQuestionPending = currentBinaryQuestion
    /\ ~showFeedback
    /\ Commit(cancelBinaryQuestion(Pack))

\* The user submits an answer in the question popup, which is rendered
\* while a question is set and no feedback is shown (2518, 2608; 2628,
\* 2802).  The selected option is the correct one or not.
SubmitAnswer ==
    /\ currentQuestion # Null
    /\ currentQuestionPending = currentQuestion
    /\ ~showFeedback
    /\ \E isCorrect \in BOOLEAN : Commit(submitAnswer(Pack, isCorrect))

SubmitBinaryAnswer ==
    /\ currentBinaryQuestion # Null
    /\ currentBinaryQuestionPending = currentBinaryQuestion
    /\ ~showFeedback
    /\ \E isCorrect \in BOOLEAN : Commit(submitBinaryAnswer(Pack, isCorrect))

\* The 2000 ms timer of a correct answer fires; timers of one delay fire
\* in the order they were set.
FeedbackTimer ==
    /\ feedbackTimers # << >>
    /\ Commit(feedbackTimeout([Pack EXCEPT !.feedbackTimers = Tail(@)],
                              Head(feedbackTimers)))

\* The continue button, rendered while showFinishButton (2442, 2451).  A
\* button is clicked once the state that shows it has been rendered.
ContinueLesson ==
    /\ showFinishButton
    /\ ~RenderDue
    /\ Commit(handleContinueLesson(Pack))

\* The finish button of the game frame, rendered while a game is shown
\* and no two-player game is (1495, 2082, 2125).
FinishGame ==
    /\ currentGame # Null
    /\ currentTwoPlayerGame = Null
    /\ ~RenderDue
    /\ Commit(handleContinueLesson(Pack))

\* The two buttons of the two-player game (2031-2056).
StartTwoPlayerGameTimer ==
    /\ currentTwoPlayerGame # Null
    /\ ~timerActive
    /\ ~RenderDue
    /\ Len(outbound) < MaxSent
    /\ Commit(flushGameTimerEffect(startTwoPlayerGameTimer(Pack)))

FinishTwoPlayerGame ==
    /\ currentTwoPlayerGame # Null
    /\ timerActive
    /\ ~RenderDue
    /\ Commit(flushGameTimerEffect(finishTwoPlayerGame(Pack)))

\* The Start button where the number of events sent is bounded by n.
StartGame(n) ==
    /\ currentTwoPlayerGame # Null
    /\ ~timerActive
    /\ ~RenderDue
    /\ Len(outbound) < n
    /\ Commit(flushGameTimerEffect(startTwoPlayerGameTimer(Pack)))

\* The timer effect after a render that changed timerActive or gameTimer.
GameTimerEffect ==
    /\ << timerActive, gameTimer >> # gameTimerDeps
    /\ Commit(gameTimerEffect(Pack))

\* The 1000 ms timeout of the game timer fires.
GameTick ==
    /\ gameTimerRef
    /\ Commit(gameTimeout(Pack))

\* The connection is lost: the browser sets the socket's readyState and
\* dispatches close.
WsClose ==
    /\ websocketRef = "OPEN"
    /\ Commit(onclose([Pack EXCEPT
                 !.websocketRef = "CLOSED",
                 !.sockets[websocketId].readyState = "CLOSED"]))

\* The browser dispatches error on the socket; close follows.
WsError ==
    /\ websocketRef = "OPEN"
    /\ Commit(onerror(Pack))

\* The 120 s inactivity timer fires (319-321).  The handleInactivity it
\* calls is the one of the render that set the timer: the mount's, with
\* both players null, after any user activity (377-381, 1257-1272), the
\* connection effect's otherwise.
HandleInactivity ==
    \E a \in {FALSE, handlerAudioPlayers} :
        Commit(handleInactivity([Pack EXCEPT !.audioPlayer = a]))

\* The connection effect runs after the queue effect of the same render.
ConnectionEffect ==
    /\ connectionEffectPending
    /\ ~effectPending
    /\ Commit(connectionEffect(
                 [Pack EXCEPT !.connectionEffectPending = FALSE]))

\* The render and the effects of an update are done.
Flushed == ~RenderDue /\ ~effectPending /\ ~connectionEffectPending

\* The click on "Yes, I'm here" of the inactivity modal (3070).
HandleUserActive ==
    /\ showInactivityModal
    /\ isInactive
    /\ Flushed
    /\ Len(sockets) + 2 <= MaxSockets
    /\ Commit(handleUserActive(Pack))

\* Socket k is connected: the browser dispatches open.
SocketOpen ==
    \E k \in 1..Len(sockets) :
        /\ sockets[k].readyState = "CONNECTING"
        /\ Flushed
        /\ Commit(onopen([Pack EXCEPT
                     !.sockets[k].readyState = "OPEN",
                     !.websocketRef =
                         IF k = websocketId THEN "OPEN" ELSE @], k))

\* The 30 s interval set by the onopen of socket k fires (405-413):
\* a ping is sent if the socket is open and isInactive was false in the
\* render whose establishWebSocketConnection made the socket.
PingInterval ==
    \E k \in 1..Len(sockets) :
        /\ sockets[k].interval
        /\ sockets[k].periodic
        /\ sockets[k].readyState = "OPEN"
        /\ ~sockets[k].pinged
        /\ Commit([Pack EXCEPT !.sockets[k].pinged = TRUE])

\* ws.onmessage of socket k with the pong that answers its ping.
Pong ==
    \E k \in 1..Len(sockets) :
        /\ sockets[k].readyState = "OPEN"
        /\ sockets[k].pinged
        /\ Commit(handlePong([Pack EXCEPT !.sockets[k].pinged = FALSE]))

\* Socket k is closed, by the peer, by the network or at the end of the
\* closing handshake: the browser dispatches close.  When the connection
\* failed it dispatches error first, in the same task, and ws.onerror
\* writes what ws.onclose writes.
SocketClose ==
    \E k \in 1..Len(sockets) :
        /\ sockets[k].readyState # "CLOSED"
        /\ Flushed
        /\ Commit(onclose([Pack EXCEPT
                     !.sockets[k].readyState = "CLOSED",
                     !.websocketRef =
                         IF k = websocketId THEN "CLOSED" ELSE @]))

\* The Close button of the feedback popup, rendered for an incorrect
\* answer (2822, 2878): onClick={currentBinaryQuestion ?
\* cancelBinaryQuestion : cancelQuestion}.
CloseFeedback ==
    /\ showFeedback
    /\ ~feedbackCorrect
    /\ currentQuestionPending = currentQuestion
    /\ currentBinaryQuestionPending = currentBinaryQuestion
    /\ currentQuestion # Null \/ currentBinaryQuestion # Null
    /\ Commit(IF currentBinaryQuestion # Null
              THEN cancelBinaryQuestion(Pack)
              ELSE cancelQuestion(Pack))

UnitDuration == {1}

Next ==
    \/ Deliver(SequencerShapes, MaxCmds)
    \/ Render
    \/ QueueEffect
    \/ SettleTimer
    \/ EndDelayTimer
    \/ DecodeOk(UnitDuration)
    \/ DecodeFail
    \/ ContinuationTimer
    \/ NodeEnded
    \/ CancelQuestion

Spec == Init /\ [][Next]_vars

(***************************************************************************)
(* QueueSpec: longer runs of the two simplest kinds, one completing on its *)
(* timer and one at once.                                                  *)
(***************************************************************************)
QueueShapes ==
    { Shape("WHITEBOARD", TRUE, FALSE, FALSE),
      Shape("FINISH_MODULE", TRUE, FALSE, FALSE) }

QueueNext ==
    \/ Deliver(QueueShapes, MaxQueueCmds)
    \/ Render
    \/ QueueEffect
    \/ SettleTimer

QueueSpec == Init /\ [][QueueNext]_vars

(***************************************************************************)
(* QuestionSpec: both question kinds, well-formed and not, beside a        *)
(* command that stays in flight.                                           *)
(***************************************************************************)
QuestionShapes ==
    { Shape("MCQ_QUESTION", TRUE, FALSE, FALSE),
      Shape("MCQ_QUESTION", FALSE, FALSE, FALSE),
      Shape("BINARY_CHOICE_QUESTION", TRUE, FALSE, FALSE),
      Shape("BINARY_CHOICE_QUESTION", FALSE, FALSE, FALSE),
      Shape("WHITEBOARD", TRUE, FALSE, FALSE) }

QuestionNext ==
    \/ Deliver(QuestionShapes, MaxCmds)
    \/ Render
    \/ QueueEffect
    \/ SettleTimer
    \/ CancelQuestion
    \/ CancelBinaryQuestion

QuestionSpec == Init /\ [][QuestionNext]_vars

(***************************************************************************)
(* UnknownSpec: from Idle, a command of an unrecognized kind arrives       *)
(* first, known commands follow.  React performs every render and effect   *)
(* it scheduled and the browser fires every timer: weak fairness.          *)
(***************************************************************************)
KnownShapes ==
    { Shape("WHITEBOARD", TRUE, FALSE, FALSE),
      Shape("FINISH_MODULE", TRUE, FALSE, FALSE),
      Shape("MCQ_QUESTION", TRUE, FALSE, FALSE),
      Shape("TEACHER_SPEECH", TRUE, FALSE, FALSE) }

UnknownShape == Shape("UNKNOWN", TRUE, FALSE, FALSE)

DeliverUnknownFirst ==
    \E batch \in Batches(KnownShapes \cup {UnknownShape}) :
        /\ websocketRef = "OPEN"
        /\ Len(cmds) + Len(batch) <= MaxCmds
        /\ \A i \in 1..Len(batch) :
               (batch[i] = UnknownShape) <=> (Len(cmds) + i = 1)
        /\ Commit(RunMicrotasks(handleWebSocketMessage(
                      [Pack EXCEPT !.audioPlayer = handlerAudioPlayers,
                                   !.inbound = Append(@, batch)],
                      batch)))

UnknownNext ==
    \/ DeliverUnknownFirst
    \/ Render
    \/ QueueEffect
    \/ SettleTimer

UnknownSpec ==
    /\ Init
    /\ [][UnknownNext]_vars
    /\ WF_vars(Render)
    /\ WF_vars(QueueEffect)
    /\ WF_vars(SettleTimer)

(***************************************************************************)
(* UtteranceSpec: one StreamingAudioPlayer and one utterance.  Fragments   *)
(* are handed to addChunk while decodes, continuation timers and playback  *)
(* ends take place; then the end callback is registered, once, and no      *)
(* fragment follows.                                                       *)
(***************************************************************************)
Speaker == "teacher"

ChunksHanded(P) ==
    Range(P.pendingChunks) \cup P.decoding \cup P.failed \cup P.discarded
        \cup { P.scheduled[i].chunk : i \in 1..Len(P.scheduled) }

StreamClosed ==
    player[Speaker].onEndCallback # Null \/ endFired[Speaker] # << >>

AddChunk ==
    /\ ~StreamClosed
    /\ Cardinality(ChunksHanded(player[Speaker])) < MaxChunks
    /\ Commit(addChunk(Pack, Speaker,
                       Cardinality(ChunksHanded(player[Speaker])) + 1))

SetOnEndCallback ==
    /\ ~StreamClosed
    /\ Commit(setOnEndCallback(Pack, Speaker, 1))

UtteranceNext ==
    \/ AddChunk
    \/ SetOnEndCallback
    \/ DecodeOk(UnitDuration)
    \/ DecodeFail
    \/ ContinuationTimer
    \/ NodeEnded

UtteranceSpec == Init /\ [][UtteranceNext]_vars

(***************************************************************************)
(* MalformedSpec: commands of the kinds that require payload fields, with  *)
(* a required field missing, beside well-formed ones (a WHITEBOARD, which  *)
(* stays in flight so that later commands go through the queue, and a      *)
(* GAME).                                                                  *)
(***************************************************************************)
FieldKinds ==
    { "WHITEBOARD", "MCQ_QUESTION", "BINARY_CHOICE_QUESTION", "GAME",
      "TWO_PLAYER_GAME" }

MalformedShapes ==
    { Shape(t, FALSE, FALSE, FALSE) : t \in FieldKinds }
        \cup { Shape("WHITEBOARD", TRUE, FALSE, FALSE),
               Shape("GAME", TRUE, FALSE, FALSE) }

MalformedNext ==
    \/ Deliver(MalformedShapes, MaxCmds)
    \/ Render
    \/ QueueEffect
    \/ SettleTimer

MalformedSpec == Init /\ [][MalformedNext]_vars

(***************************************************************************)
(* StopSpec: one StreamingAudioPlayer and one utterance as in              *)
(* UtteranceSpec, and stop() called at any moment.  The ended event of a   *)
(* node that stop() stopped is dispatched afterwards.                      *)
(***************************************************************************)
Stop == Commit(stop(Pack, Speaker))

StopNext ==
    \/ AddChunk
    \/ SetOnEndCallback
    \/ DecodeOk(UnitDuration)
    \/ DecodeFail
    \/ ContinuationTimer
    \/ NodeEnded
    \/ StoppedNodeEnded
    \/ Stop

StopSpec == Init /\ [][StopNext]_vars

(***************************************************************************)
(* ScheduleSpec: one StreamingAudioPlayer under a running clock.           *)
(* Fragments of one or two time units are handed to addChunk; a source     *)
(* node ends once the clock has reached the end of its buffer.             *)
(***************************************************************************)
Durations == {1, 2}

Tick ==
    /\ currentTime < MaxTime
    /\ Commit([Pack EXCEPT !.currentTime = @ + 1])

PlayedOut ==
    \E i \in 1..Len(player[Speaker].activeSourceNodes) :
        LET node == player[Speaker].activeSourceNodes[i] IN
        /\ node.start + node.duration <= currentTime
        /\ Commit(onended(Pack, Speaker, node.chunk))

ScheduleNext ==
    \/ AddChunk
    \/ DecodeOk(Durations)
    \/ DecodeFail
    \/ ContinuationTimer
    \/ PlayedOut
    \/ Tick

ScheduleSpec == Init /\ [][ScheduleNext]_vars

(***************************************************************************)
(* StopClockSpec: a player under a running clock, with stop() called at    *)
(* any moment and fragments handed over before and after it.               *)
(***************************************************************************)
AddChunkAroundStop ==
    /\ Cardinality(ChunksHanded(player[Speaker])) < MaxStopChunks
    /\ Commit(addChunk(Pack, Speaker,
                       Cardinality(ChunksHanded(player[Speaker])) + 1))

StopClockNext ==
    \/ AddChunkAroundStop
    \/ DecodeOk(Durations)
    \/ DecodeFail
    \/ ContinuationTimer
    \/ PlayedOut
    \/ StoppedNodeEnded
    \/ Stop
    \/ Tick

StopClockSpec == Init /\ [][StopClockNext]_vars

(***************************************************************************)
(* SpeechSpec: speech commands without audio_bytes, with and without       *)
(* stream_complete, of both parties, beside teacher fragments that play    *)
(* and end.                                                                *)
(***************************************************************************)
SpeechOnlyShapes ==
    { Shape("TEACHER_SPEECH", TRUE, FALSE, FALSE),
      Shape("TEACHER_SPEECH", TRUE, FALSE, TRUE),
      Shape("CLASSMATE_SPEECH", TRUE, FALSE, TRUE),
      Shape("TEACHER_SPEECH", TRUE, TRUE, FALSE) }

SpeechNext ==
    \/ Deliver(SpeechOnlyShapes, MaxCmds)
    \/ Render
    \/ QueueEffect
    \/ EndDelayTimer
    \/ DecodeOk(UnitDuration)
    \/ DecodeFail
    \/ ContinuationTimer
    \/ NodeEnded

SpeechSpec == Init /\ [][SpeechNext]_vars

(***************************************************************************)
(* AnswerSpec: questions of both kinds are shown and the user answers      *)
(* them, right or wrong, or cancels them; a WHITEBOARD is the command      *)
(* that stays in flight meanwhile.  The user may stay away for 120 s, and  *)
(* answer a question that is still shown after the socket was dropped.     *)
(***************************************************************************)
AnswerShapes ==
    { Shape("MCQ_QUESTION", TRUE, FALSE, FALSE),
      Shape("BINARY_CHOICE_QUESTION", TRUE, FALSE, FALSE),
      Shape("WHITEBOARD", TRUE, FALSE, FALSE) }

AnswerNext ==
    \/ Deliver(AnswerShapes, MaxCmds)
    \/ Render
    \/ QueueEffect
    \/ SettleTimer
    \/ SubmitAnswer
    \/ SubmitBinaryAnswer
    \/ FeedbackTimer
    \/ CloseFeedback
    \/ CancelQuestion
    \/ CancelBinaryQuestion
    \/ HandleInactivity
    \/ ConnectionEffect

AnswerSpec == Init /\ [][AnswerNext]_vars

(***************************************************************************)
(* SyncSpec: the kinds whose handler completes the command itself, and a   *)
(* WHITEBOARD, during whose settle delay the sequencer is not idle.        *)
(***************************************************************************)
SyncKinds ==
    { "FINISH_MODULE", "GAME", "TWO_PLAYER_GAME", "STUDENT_POINT",
      "CLASSMATE_POINT", "UNKNOWN" }

SyncShapes ==
    { Shape(t, TRUE, FALSE, FALSE) : t \in SyncKinds \cup {"WHITEBOARD"} }

SyncNext ==
    \/ Deliver(SyncShapes, MaxCmds)
    \/ Render
    \/ QueueEffect
    \/ SettleTimer

SyncSpec == Init /\ [][SyncNext]_vars

(***************************************************************************)
(* ContinueSpec: the continue button and the games are shown and the user  *)
(* ends them, while the command that follows (a WHITEBOARD, a teacher      *)
(* speech with a fragment, closing or not) is in flight or waiting.        *)
(***************************************************************************)
ContinueShapes ==
    { Shape("FINISH_MODULE", TRUE, FALSE, FALSE),
      Shape("GAME", TRUE, FALSE, FALSE),
      Shape("TWO_PLAYER_GAME", TRUE, FALSE, FALSE),
      Shape("WHITEBOARD", TRUE, FALSE, FALSE),
      Shape("TEACHER_SPEECH", TRUE, TRUE, FALSE),
      Shape("TEACHER_SPEECH", TRUE, TRUE, TRUE) }

ContinueNext ==
    \/ Deliver(ContinueShapes, MaxContinueCmds)
    \/ Render
    \/ QueueEffect
    \/ SettleTimer
    \/ EndDelayTimer
    \/ DecodeOk(UnitDuration)
    \/ ContinuationTimer
    \/ NodeEnded
    \/ StoppedNodeEnded
    \/ ContinueLesson
    \/ FinishGame
    \/ StartTwoPlayerGameTimer
    \/ FinishTwoPlayerGame

ContinueSpec == Init /\ [][ContinueNext]_vars

(***************************************************************************)
(* TransportSpec: the connection fails or closes at any moment, with       *)
(* commands in flight and in the queue; what was set going before goes on  *)
(* (renders, the effect, timers), and nothing is delivered after the       *)
(* close.                                                                  *)
(***************************************************************************)
TransportNext ==
    \/ Deliver(QueueShapes, MaxCmds)
    \/ Render
    \/ QueueEffect
    \/ SettleTimer
    \/ WsClose
    \/ WsError

TransportSpec == Init /\ [][TransportNext]_vars

(***************************************************************************)
(* HandlerSpec: every way a command that is not a question completes or    *)
(* fails to, under the assumptions that what was scheduled happens: React  *)
(* renders and runs its effects, timers fire, decodeAudioData settles one  *)
(* way or the other, a started source node ends.                           *)
(***************************************************************************)
HandlerShapes ==
    { Shape("TEACHER_SPEECH", TRUE, a, c) : a \in BOOLEAN, c \in BOOLEAN }
        \cup { Shape("WHITEBOARD", ok, FALSE, FALSE) : ok \in BOOLEAN }

DecodeSettles == DecodeOk(UnitDuration) \/ DecodeFail

HandlerNext ==
    \/ Deliver(HandlerShapes, MaxCmds)
    \/ Render
    \/ QueueEffect
    \/ SettleTimer
    \/ EndDelayTimer
    \/ DecodeSettles
    \/ ContinuationTimer
    \/ NodeEnded

HandlerSpec ==
    /\ Init
    /\ [][HandlerNext]_vars
    /\ WF_vars(Render)
    /\ WF_vars(QueueEffect)
    /\ WF_vars(SettleTimer)
    /\ WF_vars(EndDelayTimer)
    /\ WF_vars(DecodeSettles)
    /\ WF_vars(ContinuationTimer)
    /\ WF_vars(NodeEnded)

(***************************************************************************)
(* NoAudioSpec: speech commands with audio_bytes arrive while both players *)
(* are null; the initialization may finish later, after the connection     *)
(* effect ran, so that the closure of ws.onmessage keeps the null players. *)
(***************************************************************************)
AudioShapes ==
    { Shape(t, TRUE, TRUE, c) :
        t \in {"TEACHER_SPEECH", "CLASSMATE_SPEECH"}, c \in BOOLEAN }

\* initializePlayers resumes after both `await ...initialize()` and sets
\* the two players (1159-1162).
InitializePlayers ==
    /\ ~audioPlayersPending
    /\ Commit([Pack EXCEPT !.audioPlayersPending = TRUE])

NoAudioNext ==
    \/ Deliver(AudioShapes, MaxCmds)
    \/ Render
    \/ QueueEffect
    \/ InitializePlayers

NoAudioSpec == AwaitingAudio /\ [][NoAudioNext]_vars

(***************************************************************************)
(* DisposeSpec: teacher speech with audio_bytes before and after a period  *)
(* of inactivity: the inactivity timer fires, the connection effect's      *)
(* cleanup runs, the user confirms activity, a new socket opens.           *)
(***************************************************************************)
TeacherAudioShapes ==
    { Shape("TEACHER_SPEECH", TRUE, TRUE, c) : c \in BOOLEAN }

DisposeNext ==
    \/ Deliver(TeacherAudioShapes, MaxDisposeCmds)
    \/ Render
    \/ QueueEffect
    \/ EndDelayTimer
    \/ DecodeOk(UnitDuration)
    \/ ContinuationTimer
    \/ NodeEnded
    \/ HandleInactivity
    \/ ConnectionEffect
    \/ HandleUserActive
    \/ SocketOpen

DisposeSpec == Init /\ [][DisposeNext]_vars

(***************************************************************************)
(* HandshakeSpec: the life of the connections, without commands: sockets   *)
(* open, are pinged and answer, close or fail; the inactivity timer fires  *)
(* and the user confirms activity.                                         *)
(***************************************************************************)
HandshakeNext ==
    \/ Render
    \/ HandleInactivity
    \/ ConnectionEffect
    \/ HandleUserActive
    \/ SocketOpen
    \/ PingInterval
    \/ Pong
    \/ SocketClose

HandshakeSpec == Init /\ [][HandshakeNext]_vars

(***************************************************************************)
(* EnvelopeSpec: batches in which 'command' messages with a field of the   *)
(* envelope missing stand beside well-formed commands, one that stays in   *)
(* flight and one that completes at once.                                  *)
(***************************************************************************)
EnvelopeNext ==
    \/ Deliver(QueueShapes \cup InvalidEnvelopes, MaxEnvelopeCmds)
    \/ Render
    \/ QueueEffect
    \/ SettleTimer

EnvelopeSpec == Init /\ [][EnvelopeNext]_vars

(***************************************************************************)
(* GameTimerSpec: two-player games that are started, count down, are       *)
(* ended early or by the timer, and started again.                         *)
(***************************************************************************)
GameShapes == { Shape("TWO_PLAYER_GAME", TRUE, FALSE, FALSE) }

GameTimerNext ==
    \/ Deliver(GameShapes, MaxGameCmds)
    \/ Render
    \/ QueueEffect
    \/ StartGame(MaxGameSent)
    \/ FinishTwoPlayerGame
    \/ GameTimerEffect
    \/ GameTick

GameTimerSpec == Init /\ [][GameTimerNext]_vars

(***************************************************************************)
(* Histories read by the properties.                                       *)
(***************************************************************************)
\* Commands whose handler has started and whose completion signal has not
\* fired yet.
InFlight == Range(processed) \ completed

IndexIn(seq, x) == CHOOSE i \in 1..Len(seq) : seq[i] = x

Occurrences(seq, x) == Cardinality({ i \in 1..Len(seq) : seq[i] = x })

\* C1: at most one command has its handler started and not yet completed.
AtMostOneInFlight == Cardinality(InFlight) <= 1

\* C2: handlers start in arrival order.
StrictArrivalOrder ==
    \A i, j \in 1..Len(processed) : i < j => processed[i] < processed[j]

\* C3: of two commands appended to the queue, the one appended first has
\* its handler started first.
FifoOfQueued ==
    \A i, j \in 1..Len(enqueued) :
        (i < j /\ enqueued[j] \in Range(processed))
            => /\ enqueued[i] \in Range(processed)
               /\ IndexIn(processed, enqueued[i])
                    < IndexIn(processed, enqueued[j])

\* The queue as it will be once the recorded updates are applied.
QueueAfterUpdates == ApplyUpdates(commandQueue, commandQueueUpdates)

\* C4: every accepted command is started exactly once: none is started
\* twice, and one not started yet is still waiting in the queue.
NoneSkippedNoneTwice ==
    \A c \in 1..Len(cmds) :
        /\ Occurrences(processed, c) <= 1
        /\ c \notin Range(processed) => c \in Range(QueueAfterUpdates)

RefIffInFlight == isProcessingRef <=> Cardinality(InFlight) = 1

IsQuestion(m) ==
    m.type \in {"MCQ_QUESTION", "BINARY_CHOICE_QUESTION"} /\ m.ok

OnDisplay(c) ==
    IF cmds[c].type = "MCQ_QUESTION"
    THEN currentQuestionPending = c
    ELSE currentBinaryQuestionPending = c

UnknownKindLiveness ==
    /\ [](\A c \in InFlight : cmds[c].type # "UNKNOWN")
    /\ [](Len(cmds) >= 2
            => <>(2 \in Range(processed) /\ {1, 2} \subseteq completed))

UnknownThenKnownDone ==
    /\ Len(cmds) >= 2
    /\ cmds[1].type = "UNKNOWN"
    /\ cmds[2].type = "WHITEBOARD"
    /\ 2 \in Range(processed)
    /\ {1, 2} \subseteq completed

IsAudioSpeech(m) == m.type \in SpeechTypes /\ m.audio

\* The chunk of command k has finished: it played to its end, or it could
\* not be decoded.
ChunkFinished(k) ==
    LET P == player[SenderOf(cmds[k].type)] IN k \in P.ended \cup P.failed

\* C9: a fragment-bearing speech command with stream_complete false is
\* completed in the task that admits it; one with stream_complete true is
\* completed only when every fragment handed to its party's player up to
\* and including its own has finished playing.
StreamedSpeechGating ==
    /\ \A c \in Range(processed) :
          (IsAudioSpeech(cmds[c]) /\ ~cmds[c].sc) => c \in completed
    /\ \A c \in completed :
          (IsAudioSpeech(cmds[c]) /\ cmds[c].sc)
            => \A k \in Range(processed) :
                  (/\ IsAudioSpeech(cmds[k])
                   /\ cmds[k].type = cmds[c].type
                   /\ IndexIn(processed, k) <= IndexIn(processed, c))
                    => ChunkFinished(k)

Quiescent(P) ==
    /\ P.pendingChunks = << >>
    /\ P.decoding = {}
    /\ P.contTimers = 0
    /\ P.activeSourceNodes = << >>

\* C10: the end callback is invoked at most once, only while
\* activeSourceNodes and pendingChunks are empty, and once it is registered
\* and the player has nothing left to do it has been invoked.
EndOfUtteranceExactlyOnce ==
    /\ Len(endFired[Speaker]) <= 1
    /\ \A i \in 1..Len(endFired[Speaker]) :
          endFired[Speaker][i].active = 0 /\ endFired[Speaker][i].pending = 0
    /\ (StreamClosed /\ Quiescent(player[Speaker]))
          => Len(endFired[Speaker]) = 1

\* C11: every command whose handler started, other than a question, is
\* eventually completed, and no completion is signalled for it a second
\* time.
NoStuckHandler ==
    /\ \A c \in 1..MaxCmds :
          [](c \in Range(processed) => <>(c \in completed))
    /\ [](strayCompletes = 0)

\* C12: the fragments of a player are scheduled in the order they were
\* handed to addChunk (fragments are numbered in that order), and their
\* start times are ordered the same way.
FragmentOrdering ==
    LET S == player[Speaker].scheduled IN
    \A i, j \in 1..Len(S) :
        i < j => S[i].chunk < S[j].chunk /\ S[i].start <= S[j].start

\* The scheduling record of fragment k.
ScheduledAs(k) ==
    LET S == player[Speaker].scheduled IN
    S[CHOOSE i \in 1..Len(S) : S[i].chunk = k]

IsScheduled(k) ==
    \E i \in 1..Len(player[Speaker].scheduled) :
        player[Speaker].scheduled[i].chunk = k

\* C13: when F1 and the fragment F2 handed over right after it are both
\* scheduled and F2's decode completed no later than F1's scheduled end,
\* F2 starts where F1 ends.
GaplessScheduling ==
    \A k \in 1..(MaxChunks - 1) :
        (/\ IsScheduled(k) /\ IsScheduled(k + 1)
         /\ ScheduledAs(k + 1).at
               <= ScheduledAs(k).start + ScheduledAs(k).duration)
          => ScheduledAs(k + 1).start
               = ScheduledAs(k).start + ScheduledAs(k).duration

\* C14: a stop() step leaves activeSourceNodes and pendingChunks empty,
\* isPlaying and isProcessing false, nextStartTime 0 and no callback
\* registered; a callback that was registered is invoked exactly once by
\* the step, and without one the step invokes nothing.
StopContract ==
    [][Stop =>
        LET P == player[Speaker]
            Q == player'[Speaker]
            F == endFired'[Speaker]
        IN  /\ Q.activeSourceNodes = << >>
            /\ Q.pendingChunks = << >>
            /\ ~Q.isPlaying
            /\ ~Q.isProcessing
            /\ Q.nextStartTime = 0
            /\ Q.onEndCallback = Null
            /\ IF P.onEndCallback # Null
               THEN /\ Len(F) = Len(endFired[Speaker]) + 1
                    /\ F[Len(F)].callback = P.onEndCallback
                    /\ F[Len(F)].by = "stop"
                    /\ endDelayTimers' = endDelayTimers \cup {P.onEndCallback}
               ELSE /\ F = endFired[Speaker]
                    /\ endDelayTimers' = endDelayTimers]_vars

\* stop() has stopped a playing node and invoked the registered callback.
StoppedWhilePlaying ==
    /\ player[Speaker].stopped # {}
    /\ \E i \in 1..Len(endFired[Speaker]) : endFired[Speaker][i].by = "stop"
    /\ player[Speaker].onEndCallback = Null
    /\ player[Speaker].activeSourceNodes = << >>

IsMalformed(m) == m.type \in FieldKinds /\ ~m.ok

\* C15: a command that lacks a field its kind requires is completed in the
\* task that starts its handler, and nothing of its kind's state change is
\* applied: no whiteboard content, no settle timer, no question, no game.
MalformedCompletesUnapplied ==
    \A c \in Range(processed) :
        IsMalformed(cmds[c])
          => /\ c \in completed
             /\ c \notin Range(whiteboardContent)
             /\ c \notin settleTimers
             /\ currentQuestionPending # c
             /\ currentBinaryQuestionPending # c
             /\ currentGame # c
             /\ currentTwoPlayerGame # c

\* A malformed GAME command went through the queue and its handler ran,
\* after a well-formed GAME was shown.
MalformedGameHandled ==
    \E c \in Range(processed) \cap Range(enqueued) :
        /\ cmds[c].type = "GAME"
        /\ ~cmds[c].ok
        /\ currentGame # Null

\* The fragment of speech command c was rejected by decodeAudioData.
DecodeFailed(c) ==
    /\ c \in Range(processed)
    /\ IsAudioSpeech(cmds[c])
    /\ c \in player[SenderOf(cmds[c].type)].failed

\* C16: after a decode failure the fragments still pending are taken up,
\* and a stream_complete speech command whose own fragment (the last of
\* its utterance) failed to decode is eventually completed.  Failures and
\* completions are never undone, so "each eventually" is "eventually all,
\* from then on".
DecodeFailureDoesNotBlock ==
    <>[](/\ \A p \in Parties :
             player[p].failed # {} => player[p].pendingChunks = << >>
         /\ \A c \in Range(processed) :
             (DecodeFailed(c) /\ cmds[c].sc) => c \in completed)

\* C17: a message with one command, handled while a command is in flight,
\* appends it at the tail of the queue and starts no handler; handled while
\* none is in flight, it starts the command's handler in the same task,
\* with the flag set unless the handler completed at once, and leaves the
\* queue as it was.
SubmitContract ==
    [][Len(cmds') = Len(cmds) + 1 =>
        LET c == Len(cmds') IN
        IF InFlight # {}
        THEN /\ QueueAfterUpdates' = Append(QueueAfterUpdates, c)
             /\ processed' = processed
        ELSE /\ processed' = Append(processed, c)
             /\ QueueAfterUpdates' = QueueAfterUpdates
             /\ isProcessingRef' \/ c \in completed']_vars

\* C18: when the queue effect runs after a completion (shouldProcessNext
\* set, no command marked as processing): with a non-empty queue it starts
\* the handler of the head, with the flag set unless the handler completed
\* at once, and the queue loses exactly its head; with an empty queue it
\* starts no handler and leaves the flag and shouldProcessNext false.
CompleteContract ==
    [][(QueueEffect /\ shouldProcessNext /\ ~isProcessing) =>
        IF commandQueue # << >>
        THEN /\ processed' = Append(processed, Head(commandQueue))
             /\ isProcessingRef' \/ Head(commandQueue) \in completed'
             /\ QueueAfterUpdates' = Tail(QueueAfterUpdates)
        ELSE /\ processed' = processed
             /\ ~isProcessingRef'
             /\ ~shouldProcessNextPending']_vars

\* The end callback of command c is registered on a player that has
\* nothing pending, in decode or playing.
RegisteredOnDrained(c) ==
    \E p \in Parties :
        player[p].onEndCallback = c /\ Quiescent(player[p])

\* C19: a stream_complete speech command whose end callback is registered
\* on an already drained player is completed.
ClosingDrainedStreamCompletes ==
    \A c \in 1..MaxCmds : RegisteredOnDrained(c) ~> (c \in completed)

\* C20: whenever the end callback was invoked, no fragment handed to
\* addChunk was unfinished: none pending, none awaiting decodeAudioData,
\* none playing.
NoEndBeforeLastFragment ==
    \A i \in 1..Len(endFired[Speaker]) :
        LET f == endFired[Speaker][i] IN
        f.decoding = {} /\ f.pending = 0 /\ f.active = 0

\* C21: a fragment that was pending or in decodeAudioData when stop() was
\* called is never handed to sourceNode.start.
StopDiscardsUnplayed ==
    \A i \in 1..Len(player[Speaker].scheduled) :
        player[Speaker].scheduled[i].chunk \notin player[Speaker].discarded

\* C22: of two fragments scheduled on a player (ScheduleSpec has no
\* stop()), the one scheduled later starts no earlier than the other ends.
NoOverlap ==
    LET S == player[Speaker].scheduled IN
    \A i, j \in 1..Len(S) :
        i < j => S[j].start >= S[i].start + S[i].duration

\* Two fragments were scheduled, the second one while the first was
\* already playing and before it had ended.
ScheduledWhilePlaying ==
    LET S == player[Speaker].scheduled IN
    /\ Len(S) >= 2
    /\ S[2].at > S[1].start
    /\ S[2].at < S[1].start + S[1].duration

\* C23: a step that lowers nextStartTime is a stop() step, and it leaves
\* nextStartTime at 0.
NextStartTimeMonotone ==
    [][player'[Speaker].nextStartTime < player[Speaker].nextStartTime
         => Stop /\ player'[Speaker].nextStartTime = 0]_vars

\* stop() reset the clock position while a node was playing, and a later
\* scheduling step has raised it again.
RescheduledAfterStop ==
    /\ player[Speaker].stopped # {}
    /\ player[Speaker].nextStartTime > 0
    /\ Len(player[Speaker].scheduled) >= 2

IsSilentSpeech(m) == m.type \in SpeechTypes /\ ~m.audio

CallbackInvoked(c) ==
    \E i \in 1..Len(endFired[SenderOf(cmds[c].type)]) :
        endFired[SenderOf(cmds[c].type)][i].callback = c

IsWhiteboard(m) == m.type = "WHITEBOARD" /\ m.ok

\* C25: the handler of a WHITEBOARD command with html appends the html and
\* sets the settle timer without completing the command; the command is
\* completed by the step in which its timer fires and by no other; and that
\* step leaves the in-flight flag false and, when nothing was queued, the
\* queue empty.
WhiteboardSettles ==
    /\ [](\A c \in Range(processed) :
            IsWhiteboard(cmds[c])
              => /\ c \in Range(whiteboardContent)
                 /\ c \in settleTimers <=> c \notin completed)
    /\ [][/\ \A c \in Range(processed') \ Range(processed) :
              IsWhiteboard(cmds'[c])
                => c \in settleTimers' /\ c \notin completed'
          /\ \A c \in completed' \ completed :
              IsWhiteboard(cmds'[c])
                => /\ c \in settleTimers /\ c \notin settleTimers'
                   /\ ~isProcessingRef'
                   /\ ~isProcessingPending'
                   /\ QueueAfterUpdates = << >>
                        => QueueAfterUpdates' = << >>
         ]_vars

\* A WHITEBOARD command arrived while nothing was in flight or queued, its
\* timer has fired, and the sequencer is idle again.
WhiteboardSettledIdle ==
    /\ Len(cmds) = 1
    /\ IsWhiteboard(cmds[1])
    /\ 1 \in completed
    /\ ~isProcessingRef
    /\ commandQueue = << >>
    /\ ~shouldProcessNext /\ ~shouldProcessNextPending

\* markCommandComplete calls made so far for the commands delivered.
CompletionCalls == Cardinality(completed) + strayCompletes

\* What a submit step does beside sending: no markCommandComplete call,
\* and one timer more exactly when the answer was correct.
SubmitStepDefers ==
    /\ CompletionCalls' = CompletionCalls
    /\ isProcessingRef' = isProcessingRef
    /\ shouldProcessNextPending' = shouldProcessNextPending
    /\ Len(feedbackTimers') =
          Len(feedbackTimers) + (IF feedbackCorrect' THEN 1 ELSE 0)

SendsOne(isCorrect) ==
    LET n == Len(outbound') IN
    /\ n = Len(outbound) + 1
    /\ SubSeq(outbound', 1, n - 1) = outbound
    /\ outbound'[n].type = "student_interaction"
    /\ outbound'[n].correct = isCorrect

\* The step in which a feedback timer fires makes exactly one
\* markCommandComplete call and sends nothing.
TimerStepCompletes ==
    /\ CompletionCalls' = CompletionCalls + 1
    /\ ~isProcessingRef'
    /\ shouldProcessNextPending'
    /\ outbound' = outbound
    /\ feedbackTimers' = Tail(feedbackTimers)

IsSync(m) == m.type \in SyncKinds

\* The commands numbered from a + 1 to b, in that order.
Arrivals(a, b) == [i \in 1..(b - a) |-> a + i]

\* C27: a command of a synchronous kind is completed in the task that
\* starts its handler; and a message that carries only such commands,
\* handled while the flag is false and the queue empty, starts all their
\* handlers in batch order, queues nothing and leaves the flag false and
\* the queue empty, all in that one task.
SynchronousKinds ==
    /\ [](\A c \in Range(processed) : IsSync(cmds[c]) => c \in completed)
    /\ [][(/\ Len(cmds') > Len(cmds)
           /\ ~isProcessingRef
           /\ QueueAfterUpdates = << >>
           /\ \A c \in (Len(cmds) + 1)..Len(cmds') : IsSync(cmds'[c]))
          => /\ processed' = processed \o Arrivals(Len(cmds), Len(cmds'))
             /\ Range(Arrivals(Len(cmds), Len(cmds'))) \subseteq completed'
             /\ enqueued' = enqueued
             /\ QueueAfterUpdates' = << >>
             /\ ~isProcessingRef'
             /\ ~isProcessingPending']_vars

\* A FINISH_MODULE and a GAME were handled without the queue, and after
\* the render and the effect that followed nothing is left to do.
SyncBatchDone ==
    /\ Len(cmds) = 2
    /\ cmds[1].type = "FINISH_MODULE"
    /\ cmds[2].type = "GAME"
    /\ processed = << 1, 2 >>
    /\ completed = {1, 2}
    /\ enqueued = << >>
    /\ ~isProcessingRef
    /\ commandQueue = << >> /\ commandQueueUpdates = << >>
    /\ ~shouldProcessNext /\ ~shouldProcessNextPending
    /\ ~effectPending

\* A step leaves the queue, the in-flight flag and the completion state
\* as they were and makes no markCommandComplete call.
SequencerUntouched ==
    /\ commandQueue' = commandQueue
    /\ commandQueueUpdates' = commandQueueUpdates
    /\ isProcessingRef' = isProcessingRef
    /\ isProcessing' = isProcessing
    /\ isProcessingPending' = isProcessingPending
    /\ shouldProcessNext' = shouldProcessNext
    /\ shouldProcessNextPending' = shouldProcessNextPending
    /\ completed' = completed
    /\ strayCompletes' = strayCompletes
    /\ processed' = processed

EndsGame == ContinueLesson \/ FinishGame \/ FinishTwoPlayerGame

\* The end callback of command c was invoked by stop().
InvokedByStop(c) ==
    \E p \in Parties : \E i \in 1..Len(endFired[p]) :
        endFired[p][i].callback = c /\ endFired[p][i].by = "stop"

RegisteredCallbacks ==
    { player[p].onEndCallback : p \in Parties } \ {Null}

ForcedCompletion ==
    /\ [][(ContinueLesson \/ FinishGame) =>
            \A c \in InFlight : c \in completed' \/ c \in endDelayTimers']_vars
    /\ [](strayCompletes = 0)

\* Everything but the connection status, the session-started flag, the
\* ping interval and the socket itself.
coreVars ==
    << commandQueue, commandQueueUpdates, shouldProcessNext,
       shouldProcessNextPending, isProcessing, isProcessingPending,
       effectPending, isProcessingRef, currentQuestion,
       currentQuestionPending, currentBinaryQuestion,
       currentBinaryQuestionPending, whiteboardContent, currentGame,
       currentTwoPlayerGame, showFeedback, feedbackCorrect, showFinishButton,
       timerActive, settleTimers, endDelayTimers, feedbackTimers, player,
       currentTime, outbound, cmds, processed, enqueued, completed,
       strayCompletes, endFired >>

\* C30: a step of ws.onclose or ws.onerror sets the connection status to
\* disconnected, clears the session-started flag and the ping interval,
\* and leaves everything else as it was: commandQueue, the in-flight flag
\* and shouldProcessNext among it.
TransportLossFrame ==
    [][(WsClose \/ WsError) =>
        /\ connectionStatus' = "disconnected"
        /\ ~sessionStartedRef'
        /\ ~pingIntervalRef'
        /\ UNCHANGED coreVars]_vars

\* The connection closed while a command was in flight and another was
\* waiting in the queue.
ClosedWithQueuedCommand ==
    /\ websocketRef = "CLOSED"
    /\ connectionStatus = "disconnected"
    /\ isProcessingRef
    /\ InFlight # {}
    /\ commandQueue # << >>

\* The commands whose processCommand starts in this step.
Started == Range(processed') \ Range(processed)

\* The value of the party's player in the closure that handles a command
\* started in this step: that of ws.onmessage when the step delivers a
\* batch, that of the last render when the queue effect runs.
ClosurePlayer ==
    IF Len(cmds') > Len(cmds) THEN handlerAudioPlayers ELSE audioPlayers

\* C31: a speech command with audio_bytes, stream_complete true or false,
\* whose handler finds the party's player null is completed in the step
\* that starts it, and that step leaves both players as they were: no
\* fragment queued, none in decode, no callback registered.  As long as
\* the players were never set, every delivered command is completed and
\* both players are untouched.
AudioUnavailableCompletes ==
    /\ [](~audioPlayersPending =>
            /\ \A c \in 1..Len(cmds) : c \in completed
            /\ player = [p \in Parties |-> NewPlayer])
    /\ [][\A c \in Started :
            (IsAudioSpeech(cmds'[c]) /\ ~ClosurePlayer) =>
                /\ c \in completed'
                /\ player' = player
                /\ endFired' = endFired]_vars

\* Speech commands with audio_bytes of both kinds of stream_complete were
\* completed while the players were null.
AudioUnavailableDone ==
    /\ ~audioPlayersPending
    /\ \E c, d \in completed :
          /\ IsAudioSpeech(cmds[c]) /\ cmds[c].sc
          /\ IsAudioSpeech(cmds[d]) /\ ~cmds[d].sc

\* The player of party p was disposed.
Disposed(p) == player[p].audioContext = "null"

\* C32: a disposed player holds no fragment and no end callback: nothing
\* is handed to it and nothing is registered on it after dispose().
DisposeIsTerminal ==
    \A p \in Parties :
        Disposed(p) => /\ player[p].pendingChunks = << >>
                       /\ player[p].onEndCallback = Null

\* C33: start_session is sent at most once on each socket.
OneStartPerConnection ==
    \A k \in 1..Len(sockets) : Occurrences(sessionStarts, k) <= 1

\* A submit step with a wrong option selected.
WrongAnswer == (SubmitAnswer \/ SubmitBinaryAnswer) /\ ~feedbackCorrect'

\* The feedback popup reports an incorrect answer.
WrongFeedbackShown == showFeedback /\ ~feedbackCorrect

\* The click on Close makes one markCommandComplete call and sends
\* nothing; a popup that reports an incorrect answer goes away by that
\* click only.
ClosingCompletes ==
    /\ [][CloseFeedback => /\ CompletionCalls' = CompletionCalls + 1
                           /\ outbound' = outbound
                           /\ ~showFeedback']_vars
    /\ [][(WrongFeedbackShown /\ ~showFeedback') => CloseFeedback]_vars

NeverStranded ==
    (/\ commandQueue # << >>
     /\ ~RenderDue
     /\ ~effectPending
     /\ InFlight = {}) => shouldProcessNext

\* C36: the end callback that a started speech command with
\* stream_complete registered is still held by the party's player, or it
\* was invoked: no later setOnEndCallback has replaced it.
CallbackNeverLost ==
    \A c \in Range(processed) :
        (cmds[c].type \in SpeechTypes /\ cmds[c].sc)
            => \/ player[SenderOf(cmds[c].type)].onEndCallback = c
               \/ CallbackInvoked(c)

\* The state after ws.onmessage has handled the batch `messages`.
AfterBatch(messages) ==
    RunMicrotasks(handleWebSocketMessage(
        [Pack EXCEPT !.audioPlayer = handlerAudioPlayers], messages))

\* The step leaves the sequencer where handler state R is.
SequencerAs(R) ==
    /\ cmds' = R.cmds
    /\ commandQueue' = R.commandQueue
    /\ commandQueueUpdates' = R.commandQueueUpdates
    /\ isProcessingRef' = R.isProcessingRef
    /\ isProcessingPending' = R.isProcessingPending
    /\ shouldProcessNextPending' = R.shouldProcessNextPending
    /\ processed' = R.processed
    /\ enqueued' = R.enqueued
    /\ completed' = R.completed
    /\ settleTimers' = R.settleTimers
    /\ showFinishButton' = R.showFinishButton
    /\ whiteboardContent' = R.whiteboardContent

FinishEvents ==
    { i \in 1..Len(outbound) : outbound[i].type = "finish_two_player_game" }

\* The TWO_PLAYER_GAME commands whose game was put on display.
GamesShown ==
    { c \in Range(processed) :
        cmds[c].type = "TWO_PLAYER_GAME" /\ cmds[c].ok }

\* C38: gameTimer never leaves 0..GameSeconds, and no more
\* finish_two_player_game events are sent than two-player games were
\* shown: at most one per TWO_PLAYER_GAME command.
GameTimerOneFinish ==
    /\ gameTimer \in 0..GameSeconds
    /\ Cardinality(FinishEvents) <= Cardinality(GamesShown)

\* The processNextChunk activations of player p that are in progress:
\* those awaiting decodeAudioData and those waiting on the 1 ms timer.
Activations(p) == Cardinality(player[p].decoding) + player[p].contTimers

\* C39: a player has at most one processNextChunk activation in progress
\* at any time, and isProcessing is true whenever it has one.
SingleDecodeChain ==
    \A p \in Parties :
        /\ Activations(p) <= 1
        /\ Activations(p) > 0 => player[p].isProcessing


=============================================================================
